---- MODULE Spec2Model ----
(***************************************************************************)
(* Model of src/utils/json_serializer.rs: the Playlist type, its dummy     *)
(* constructor Playlist::new, and read_json, which resolves the playlist   *)
(* source, loads and parses it, annotates every clip and hands a clone to  *)
(* a detached validator thread.                                            *)
(*                                                                         *)
(* f64 values are modelled by small naturals, on which f64 arithmetic is   *)
(* exact.  Option<T> is modelled by a sequence: None is <<>> and Some(x)   *)
(* is <<x>>.  Owned values live in a heap of Playlist values addressed by  *)
(* references, so that a clone and a shared reference are different        *)
(* things.                                                                 *)
(***************************************************************************)
EXTENDS Integers, Sequences, FiniteSets, TLC

VARIABLES
    pc,            \* position of the read_json call (and of its caller afterwards)
    config,        \* config.playlist: path and start_sec
    path,          \* argument path: Option<String>
    date,          \* local date
    playlist_path, \* local playlist_path
    current_file,  \* local current_file
    start_sec,     \* local start_sec (running offset)
    body,          \* the document the source held, once parsed: Option<Playlist>
    obs,           \* what the source answered
    heap,          \* owned Playlist values
    playlist,      \* reference of local playlist (the returned value), 0 before it exists
    list_clone,    \* reference of list_clone moved into the thread, 0 before it exists
    i,             \* loop counter of the annotation pass
    spawned,       \* number of validator threads spawned
    vpc            \* position of the validator thread

vars == <<pc, config, path, date, playlist_path, current_file, start_sec, body,
          obs, heap, playlist, list_clone, i, spawned, vpc>>

----------------------------------------------------------------------------
(* Bounds *)

MaxItems == 2
MaxTime == 1

(* Program constant *)

DUMMY_LEN == 60

----------------------------------------------------------------------------
(* Values *)

None == <<>>
Some(x) == <<x>>

Times == 0 .. MaxTime

Dates == {"2024-01-01"}

\* date.split('-')
SplitDate(d) == IF d = "2024-01-01" THEN <<"2024", "01", "01">> ELSE <<d>>

\* Path::with_extension("json") on a file name
WithExtension(name) == IF name = "2024-01-01" THEN "2024-01-01.json" ELSE name

ConfigPaths == {<<"playlists">>}
ArgPaths == {<<"https:", "host", "list.json">>}

\* crate::utils::is_remote
is_remote(p) == p[1] \in {"http:", "https:"}

\* crate::utils::Media as serde hands it over: out and seek come from the
\* document; the fields read_json assigns hold either nothing or stale values.
Unset ==
    [begin |-> None, index |-> None, last_ad |-> None, next_ad |-> None,
     process |-> None, filter |-> None]
Stale ==
    [begin |-> Some(0), index |-> Some(0), last_ad |-> Some(TRUE),
     next_ad |-> Some(TRUE), process |-> Some(FALSE), filter |-> Some(<<"fade">>)]

ParsedMedia(prior) ==
    { [seek |-> s, out |-> o, duration |-> o, source |-> "clip",
       begin |-> prior.begin, index |-> prior.index, last_ad |-> prior.last_ad,
       next_ad |-> prior.next_ad, process |-> prior.process,
       filter |-> prior.filter] : s \in Times, o \in Times }

\* program: Vec<Media>, of bounded length
Programs ==
    UNION { [1 .. n -> ParsedMedia(prior)] : n \in 0 .. MaxItems, prior \in {Unset, Stale} }

\* A parsed Playlist: the three skipped fields take their Default (None).
Documents ==
    { [date |-> d, start_sec |-> None, current_file |-> None, modified |-> None,
       program |-> p] : d \in Dates, p \in Programs }

\* Media::new(index, src, do_probe) with do_probe = false
MediaNew(index, src) ==
    [seek |-> 0, out |-> 0, duration |-> 0, source |-> src,
     begin |-> None, index |-> Some(index), last_ad |-> Some(FALSE),
     next_ad |-> Some(FALSE), process |-> Some(TRUE), filter |-> Some(<<>>)]

\* Playlist::new(date, start)
PlaylistNewNoStart(d, start) ==
    LET media == [MediaNew(0, "") EXCEPT !.begin = Some(start),
                                          !.duration = DUMMY_LEN,
                                          !.out = DUMMY_LEN]
    IN [date |-> d, start_sec |-> None, current_file |-> None,
        modified |-> Some(""), program |-> <<media>>]
PlaylistNew(d, start) ==
    LET media == [MediaNew(0, "") EXCEPT !.begin = Some(start),
                                          !.duration = DUMMY_LEN,
                                          !.out = DUMMY_LEN]
    IN [date |-> d, start_sec |-> Some(start), current_file |-> None,
        modified |-> Some(""), program |-> <<media>>]

----------------------------------------------------------------------------

Init ==
    /\ pc = "start"
    /\ config \in [path : ConfigPaths, start_sec : {None} \cup {Some(s) : s \in Times}]
    /\ path \in {None} \cup {Some(p) : p \in ArgPaths}
    /\ date = ""
    /\ playlist_path = <<>>
    /\ current_file = <<>>
    /\ start_sec = 0
    /\ body = None
    /\ obs = "none"
    /\ heap = <<>>
    /\ playlist = 0
    /\ list_clone = 0
    /\ i = 0
    /\ spawned = 0
    /\ vpc = "none"


----------------------------------------------------------------------------
(* Helpers of read_json *)

\* Option::unwrap / Result::expect: go on when the value is there, panic otherwise
ExpectPcFallback(ok, next) == IF ok THEN next ELSE "return_dummy"
ExpectPc(ok, next) == IF ok THEN next ELSE "panic"

\* playlist_path.join(d[0]).join(d[1]).join(date).with_extension("json")
JoinDatePath(root, d) ==
    LET parts == SplitDate(d)
    IN root \o <<parts[1], parts[2], WithExtension(d)>>

\* the per-clip assignments of the annotation loop
AnnotateKeepFlags(item, n, start) ==
    [item EXCEPT !.begin = Some(start), !.index = Some(n)]
Annotate(item, n, start) ==
    [item EXCEPT !.begin = Some(start),
                 !.index = Some(n),
                 !.last_ad = Some(FALSE),
                 !.next_ad = Some(FALSE),
                 !.process = Some(TRUE),
                 !.filter = Some(<<>>)]

\* start_sec += item.out - item.seek
AdvanceNoSeek(start, item) == start + item.out
AdvanceSwapped(start, item) == start + (item.seek - item.out)
Advance(start, item) == start + (item.out - item.seek)

\* playlist.clone(): a new owned value, equal to the original
CloneShared(h, r) == r
CloneRef(h, r) == Len(h) + 1
CloneHeap(h, r) == Append(h, h[r])

\* thread::spawn: one more validator thread
SpawnNone(n) == n
SpawnCount(n) == n + 1

\* return Playlist::new(date, start_sec)
ReturnDummy ==
    /\ heap' = Append(heap, PlaylistNew(date, start_sec))
    /\ playlist' = Len(heap) + 1
    /\ pc' = "return_dummy"

----------------------------------------------------------------------------
(* read_json, statement by statement *)

\* config.playlist.start_sec.unwrap(); get_date(seek, start_sec, next_start)
ReadConfig ==
    /\ pc = "start"
    /\ pc' = ExpectPc(config.start_sec # None, "resolve")
    /\ IF config.start_sec # None
       THEN /\ start_sec' = config.start_sec[1]
            /\ \E d \in Dates : date' = d
       ELSE UNCHANGED <<start_sec, date>>
    /\ UNCHANGED <<config, path, playlist_path, current_file, body, obs, heap,
                   playlist, list_clone, i, spawned, vpc>>

\* the date-based path under a directory root, then the override by path
ResolvePath ==
    /\ pc = "resolve"
    /\ \E is_dir \in BOOLEAN :
         LET composed == IF is_dir THEN JoinDatePath(config.path, date)
                                   ELSE config.path
             final == IF path # None THEN path[1] ELSE composed
         IN /\ playlist_path' = final
            /\ current_file' = final
            /\ pc' = IF is_remote(final) THEN "send" ELSE "is_file"
    /\ UNCHANGED <<config, path, date, start_sec, body, obs, heap, playlist,
                   list_clone, i, spawned, vpc>>

\* Client::new().get(&current_file).send() and the match on its result
SendRequest ==
    /\ pc = "send"
    /\ \/ /\ obs' = "transport_error"
          /\ ReturnDummy
       \/ /\ obs' = "http_error"
          /\ \E text_ok \in BOOLEAN :
               \* error!(.., resp.text().unwrap()) comes before the return
               IF ExpectPc(text_ok, "return_dummy") = "return_dummy"
               THEN ReturnDummy
               ELSE /\ pc' = "panic"
                    /\ UNCHANGED <<heap, playlist>>
       \/ /\ obs' = "http_success"
          /\ pc' = "read_body"
          /\ UNCHANGED <<heap, playlist>>
    /\ UNCHANGED <<config, path, date, playlist_path, current_file, start_sec,
                   body, list_clone, i, spawned, vpc>>

\* resp.text().unwrap() and serde_json::from_str(&body).expect(..)
ReadBody ==
    /\ pc = "read_body"
    /\ \/ /\ obs' = "body_unreadable"
          /\ pc' = ExpectPc(FALSE, "last_modified")
          /\ UNCHANGED <<body, heap, playlist>>
       \/ /\ obs' = "remote_malformed"
          /\ pc' = ExpectPc(FALSE, "last_modified")
          /\ UNCHANGED <<body, heap, playlist>>
       \/ \E doc \in Documents :
            /\ obs' = "remote_parsed"
            /\ pc' = ExpectPc(TRUE, "last_modified")
            /\ body' = Some(doc)
            /\ heap' = Append(heap, doc)
            /\ playlist' = Len(heap) + 1
    /\ UNCHANGED <<config, path, date, playlist_path, current_file, start_sec,
                   list_clone, i, spawned, vpc>>

\* match headers.get(LAST_MODIFIED): Some(t) => modified = Some(t.to_str().unwrap()..)
ReadLastModified ==
    /\ pc = "last_modified"
    /\ \E header \in {"absent", "valid", "opaque"} :
         /\ pc' = ExpectPc(header # "opaque", "set_meta")
         /\ heap' = IF header = "valid"
                    THEN [heap EXCEPT ![playlist].modified = Some("Mon, 01 Jan 2024")]
                    ELSE heap
    /\ UNCHANGED <<config, path, date, playlist_path, current_file, start_sec,
                   body, obs, playlist, list_clone, i, spawned, vpc>>

\* if !playlist_path.is_file() { return Playlist::new(date, start_sec) }
CheckIsFile ==
    /\ pc = "is_file"
    /\ \E is_file \in BOOLEAN :
         IF is_file
         THEN /\ pc' = "open"
              /\ UNCHANGED <<obs, heap, playlist>>
         ELSE /\ obs' = "not_file"
              /\ ReturnDummy
    /\ UNCHANGED <<config, path, date, playlist_path, current_file, start_sec,
                   body, list_clone, i, spawned, vpc>>

\* File::options()..open(..).expect(..) and serde_json::from_reader(f).expect(..)
OpenAndParse ==
    /\ pc = "open"
    /\ \/ /\ obs' = "open_failed"
          /\ pc' = ExpectPc(FALSE, "modified_time")
          /\ UNCHANGED <<body, heap, playlist>>
       \/ /\ obs' = "local_malformed"
          /\ pc' = ExpectPc(FALSE, "modified_time")
          /\ UNCHANGED <<body, heap, playlist>>
       \/ \E doc \in Documents :
            /\ obs' = "local_parsed"
            /\ pc' = ExpectPc(TRUE, "modified_time")
            /\ body' = Some(doc)
            /\ heap' = Append(heap, doc)
            /\ playlist' = Len(heap) + 1
    /\ UNCHANGED <<config, path, date, playlist_path, current_file, start_sec,
                   list_clone, i, spawned, vpc>>

\* if let Some(modi) = modified_time(&current_file) { playlist.modified = .. }
ReadModifiedTime ==
    /\ pc = "modified_time"
    /\ \E modify \in {None, Some("2024-01-01 06:00:00")} :
         heap' = IF modify # None
                 THEN [heap EXCEPT ![playlist].modified = modify]
                 ELSE heap
    /\ pc' = "set_meta"
    /\ UNCHANGED <<config, path, date, playlist_path, current_file, start_sec,
                   body, obs, playlist, list_clone, i, spawned, vpc>>

\* playlist.current_file = Some(current_file); playlist.start_sec = Some(start_sec)
SetMeta ==
    /\ pc = "set_meta"
    /\ heap' = [heap EXCEPT ![playlist].current_file = Some(current_file),
                            ![playlist].start_sec = Some(start_sec)]
    /\ i' = 0
    /\ pc' = "annotate"
    /\ UNCHANGED <<config, path, date, playlist_path, current_file, start_sec,
                   body, obs, playlist, list_clone, spawned, vpc>>

\* one iteration of: for (i, item) in playlist.program.iter_mut().enumerate()
AnnotateItem ==
    /\ pc = "annotate"
    /\ i < Len(heap[playlist].program)
    /\ LET item == heap[playlist].program[i + 1]
       IN /\ heap' = [heap EXCEPT ![playlist].program[i + 1] =
                                      Annotate(item, i, start_sec)]
          /\ start_sec' = Advance(start_sec, item)
    /\ i' = i + 1
    /\ UNCHANGED <<pc, config, path, date, playlist_path, current_file, body,
                   obs, playlist, list_clone, spawned, vpc>>

\* the iterator is exhausted; let list_clone = playlist.clone()
ClonePlaylist ==
    /\ pc = "annotate"
    /\ i = Len(heap[playlist].program)
    /\ list_clone' = CloneRef(heap, playlist)
    /\ heap' = CloneHeap(heap, playlist)
    /\ pc' = "spawn"
    /\ UNCHANGED <<config, path, date, playlist_path, current_file, start_sec,
                   body, obs, playlist, i, spawned, vpc>>

\* thread::spawn(move || validate_playlist(list_clone, is_terminated, config_clone))
SpawnValidator ==
    /\ pc = "spawn"
    /\ spawned' = SpawnCount(spawned)
    /\ vpc' = "running"
    /\ pc' = "return"
    /\ UNCHANGED <<config, path, date, playlist_path, current_file, start_sec,
                   body, obs, heap, playlist, list_clone, i>>

\* the tail expression: playlist
ReturnPlaylistJoined ==
    /\ pc = "return"
    /\ vpc = "done"
    /\ pc' = "return_loaded"
    /\ UNCHANGED <<config, path, date, playlist_path, current_file, start_sec,
                   body, obs, heap, playlist, list_clone, i, spawned, vpc>>
ReturnPlaylist ==
    /\ pc = "return"
    /\ pc' = "return_loaded"
    /\ UNCHANGED <<config, path, date, playlist_path, current_file, start_sec,
                   body, obs, heap, playlist, list_clone, i, spawned, vpc>>

----------------------------------------------------------------------------
(* The validator thread and the caller, each working on the value it owns *)

\* validate_playlist changes the value it was given
ValidatorMutate ==
    /\ vpc = "running"
    /\ Len(heap[list_clone].program) > 0
    /\ heap' = [heap EXCEPT ![list_clone].program =
                   SubSeq(@, 1, Len(@) - 1)]
    /\ UNCHANGED <<pc, config, path, date, playlist_path, current_file,
                   start_sec, body, obs, playlist, list_clone, i, spawned, vpc>>

\* validate_playlist returns and the thread ends
ValidatorExit ==
    /\ vpc = "running"
    /\ vpc' = "done"
    /\ UNCHANGED <<pc, config, path, date, playlist_path, current_file,
                   start_sec, body, obs, heap, playlist, list_clone, i, spawned>>

\* the caller of read_json changes the Playlist it received
CallerMutate ==
    /\ pc \in {"return_loaded", "return_dummy", "in_caller"}
    /\ playlist # 0
    /\ Len(heap[playlist].program) > 0
    /\ heap' = [heap EXCEPT ![playlist].program = SubSeq(@, 1, Len(@) - 1)]
    /\ pc' = "in_caller"
    /\ UNCHANGED <<config, path, date, playlist_path, current_file, start_sec,
                   body, obs, playlist, list_clone, i, spawned, vpc>>

----------------------------------------------------------------------------

ReadJson ==
    \/ ReadConfig
    \/ ResolvePath
    \/ SendRequest
    \/ ReadBody
    \/ ReadLastModified
    \/ CheckIsFile
    \/ OpenAndParse
    \/ ReadModifiedTime
    \/ SetMeta
    \/ AnnotateItem
    \/ ClonePlaylist
    \/ SpawnValidator
    \/ ReturnPlaylist

Next ==
    \/ ReadJson
    \/ ValidatorMutate
    \/ ValidatorExit
    \/ CallerMutate

Spec == Init /\ [][Next]_vars

\* The calling thread runs read_json to its end; nothing obliges the detached
\* validator thread to make progress.
LiveSpec == Spec /\ WF_vars(ReadJson)

----------------------------------------------------------------------------
(* Vocabulary of the properties *)

\* read_json has just handed a Playlist to its caller
Returned == pc \in {"return_loaded", "return_dummy"}

\* the annotation loop has run to its end
AfterAnnotation == pc \in {"spawn", "return", "return_loaded"}

\* the value read_json returns
Result == heap[playlist]

\* the start offset the configuration supplies
ConfiguredStart == config.start_sec[1]

IsFiller(p, start) ==
    /\ Len(p.program) = 1
    /\ p.program[1].out = DUMMY_LEN
    /\ p.program[1].duration = DUMMY_LEN
    /\ p.program[1].seek = 0
    /\ p.program[1].begin = Some(start)
    /\ p.start_sec = Some(start)

----------------------------------------------------------------------------
(* C1: whenever the source is absent (local path not a regular file, remote *)
(* transport error, remote non-success status) the call does not panic and *)
(* returns the filler Playlist: one item, out = duration = 60, seek = 0,    *)
(* begin = start_sec = the configured start offset.                        *)
C1_FillerOnAbsence ==
    obs \in {"not_file", "transport_error", "http_error"} =>
        /\ pc \in {"return_dummy", "in_caller"}
        /\ pc = "return_dummy" => IsFiller(Result, ConfiguredStart)

(* C2: after the annotation pass the program has the parsed items in their *)
(* order, none skipped; item k (0-based) has index k, the first begin is   *)
(* the configured start offset and each later begin is the previous begin  *)
(* plus the previous out minus the previous seek.                          *)
C2_AnnotationRecurrence ==
    AfterAnnotation =>
        LET items == Result.program
            parsed == body[1].program
        IN /\ Len(items) = Len(parsed)
           /\ \A k \in 1 .. Len(items) :
                /\ items[k].out = parsed[k].out
                /\ items[k].seek = parsed[k].seek
                /\ items[k].index = Some(k - 1)
                /\ k = 1 => items[k].begin = Some(ConfiguredStart)
                /\ k > 1 => items[k].begin =
                       Some(items[k - 1].begin[1] + items[k - 1].out - items[k - 1].seek)

C2_Witness ==
    /\ pc = "return_loaded"
    /\ Len(Result.program) >= 2
    /\ Result.program[1].seek > 0
    /\ Result.program[1].out > 0
    /\ Result.program[2].index = Some(1)

(* C3: every Playlist read_json returns has at least one item, also when   *)
(* the parsed document has an empty program array.                         *)
C3_ItemsNeverEmpty ==
    Returned => Len(Result.program) > 0

(* C4, as claimed: every returned Playlist has start_sec and current_file  *)
(* populated, on the loaded path and on each filler path.                  *)
C4_BothPopulated ==
    Returned => Result.start_sec # None /\ Result.current_file # None

(* C4, amended: every returned Playlist has start_sec populated with the   *)
(* configured start offset; current_file holds the resolved source on the  *)
(* loaded path and is None on each filler path.                            *)
C4_PopulatedByPath ==
    /\ Returned => Result.start_sec = Some(ConfiguredStart)
    /\ pc = "return_loaded" => Result.current_file = Some(current_file)
    /\ pc = "return_dummy" => Result.current_file = None

C4_Witness ==
    /\ pc = "return_dummy"
    /\ Result.current_file = None
    /\ Result.start_sec # None

(* C5, as claimed: every call that returns a Playlist has spawned exactly  *)
(* one validator thread, whether the Playlist was loaded or is the filler. *)
C5_OneValidatorPerReturn ==
    Returned => spawned = 1

(* C5, amended: a call that returns a loaded Playlist has spawned exactly  *)
(* one validator thread; a call that returns the filler Playlist has       *)
(* spawned none; no call spawns more than one.                             *)
C5_ValidatorOnlyWhenLoaded ==
    /\ spawned <= 1
    /\ pc = "return_loaded" => spawned = 1
    /\ pc = "return_dummy" => spawned = 0

C5_Witness ==
    /\ pc = "return_loaded"
    /\ spawned = 1
    /\ vpc = "running"
    /\ list_clone # 0

(* C6: the validator is given a copy equal to the annotated Playlist, and  *)
(* in every interleaving a change the validator makes to its copy leaves   *)
(* the caller's Playlist as it was, and a change the caller makes leaves   *)
(* the validator's copy as it was.                                         *)
C6_CopyIsolation ==
    /\ [](pc = "spawn" => heap[list_clone] = heap[playlist])
    /\ [][/\ ValidatorMutate => heap'[playlist] = heap[playlist]
          /\ (CallerMutate /\ list_clone # 0) =>
                 heap'[list_clone] = heap[list_clone]]_vars

C6_Witness ==
    /\ pc = "in_caller"
    /\ vpc = "running"
    /\ list_clone # 0
    /\ Len(body[1].program) = 2
    /\ Len(heap[list_clone].program) = 0
    /\ Len(heap[playlist].program) = 1

(* C7: when the remote body or the local file does not parse, read_json    *)
(* panics: no Playlist is produced (neither the filler nor a partial one)  *)
(* and no validator is spawned.                                            *)
C7_MalformedIsFatal ==
    obs \in {"remote_malformed", "local_malformed"} =>
        /\ pc = "panic"
        /\ playlist = 0
        /\ heap = <<>>
        /\ body = None
        /\ spawned = 0
        /\ vpc = "none"

C7_Witness ==
    /\ obs = "remote_malformed"
    /\ pc = "panic"

(* C8, as claimed: in every returned Playlist begin never decreases from   *)
(* one item to the next, whatever out and seek the items hold.             *)
C8_BeginNonDecreasing ==
    Returned =>
        \A k \in 1 .. Len(Result.program) - 1 :
            Result.program[k + 1].begin[1] >= Result.program[k].begin[1]

(* C8, amended: in every returned Playlist, begin does not decrease across *)
(* an item whose out is at least its seek.                                 *)
C8_NonDecreasingWhenOutCoversSeek ==
    Returned =>
        \A k \in 1 .. Len(Result.program) - 1 :
            Result.program[k].out >= Result.program[k].seek =>
                Result.program[k + 1].begin[1] >= Result.program[k].begin[1]

C8_Witness ==
    /\ pc = "return_loaded"
    /\ Len(Result.program) >= 2
    /\ Result.program[1].out > Result.program[1].seek
    /\ Result.program[2].begin[1] > Result.program[1].begin[1]

(* C9: once the validator is spawned, read_json returns to its caller      *)
(* whether or not the validator ever takes a step or ends.                 *)
C9_ReturnsWithoutWaiting ==
    (spawned = 1) ~> (pc \in {"return_loaded", "in_caller"})

C9_Witness ==
    /\ pc = "return_loaded"
    /\ vpc = "running"
    /\ heap[list_clone] = heap[playlist]

(* C10: after the annotation pass every item has process = true, last_ad = *)
(* false, next_ad = false and an empty filter list, whatever the parsed    *)
(* item held in those fields.                                              *)
C10_FlagsInitialised ==
    AfterAnnotation =>
        \A k \in 1 .. Len(Result.program) :
            /\ Result.program[k].process = Some(TRUE)
            /\ Result.program[k].last_ad = Some(FALSE)
            /\ Result.program[k].next_ad = Some(FALSE)
            /\ Result.program[k].filter = Some(<<>>)

C10_Witness ==
    /\ pc = "return_loaded"
    /\ \E k \in 1 .. Len(Result.program) :
         /\ body[1].program[k].process = Some(FALSE)
         /\ body[1].program[k].filter = Some(<<"fade">>)
         /\ Result.program[k].process = Some(TRUE)

====
